---- MODULE Spec2Model ----
(***************************************************************************)
(* A model of libadfir-parser: the declarative field registry built by     *)
(* ParserMeta, the dependency-driven resolution of BaseParser, the stream  *)
(* lifecycle of the parser instance and the value sanitizer _clean_value.  *)
(*                                                                         *)
(* Three specifications share the variables:                               *)
(*   Spec         one parser instance: set, get, parse_structure, parse,   *)
(*                __enter__ and __exit__, each call one atomic action;     *)
(*   SpecRegistry class definitions processed by ParserMeta._create_class; *)
(*   SpecClean    _clean_value applied to bounded resolved trees.          *)
(***************************************************************************)
EXTENDS Integers, Sequences, FiniteSets, TLC

VARIABLES
    \* ---- the parser class of the instance (fixed at class definition)
    deps,       \* field name -> declared dependency names (a sequence)
    readOnly,   \* the names of the read-only fields
    unbound,    \* the registered names with no _parse_<name> method
    source,     \* "bytes" (ByteParser) or "file" (FileParser)
    \* ---- the parser instance
    slot,       \* field name -> backing value ('__<name>'), None when unset
    stream,     \* self.stream: NoStream (None) or the id of a stream
    streams,    \* every stream created so far: id -> "open" | "closed"
    last,       \* the last call made on the instance and what it observed
    \* ---- class definitions
    heap,       \* descriptor id -> StructureProperty object
    classes,    \* class id -> its _PROPERTIES (sequence of <<name, descriptor id>>)
    lastDef,    \* the class definition processed last
    \* ---- the sanitizer
    impl,       \* which construct.Container the build links
    tree,       \* the input value
    serialize,  \* the serialize flag
    cleaned     \* the outcome of the last _clean_value call

parserVars == <<deps, readOnly, unbound, source, slot, stream, streams, last>>
registryVars == <<heap, classes, lastDef>>
cleanVars == <<impl, tree, serialize, cleaned>>
vars == <<deps, readOnly, unbound, source, slot, stream, streams, last,
          heap, classes, lastDef, impl, tree, serialize, cleaned>>

----------------------------------------------------------------------------
(* Bounds of the model *)

\* streams one instance creates in a behaviour
MaxStreams == 2
\* nested calls before the interpreter raises RecursionError
MaxDepth == 4
\* parser classes defined besides BaseParser
MaxClasses == 4
\* bases of one class definition
MaxBases == 2
\* nesting of maps and lists in a resolved tree
MaxNesting == 2
\* entries of one map, elements of one list
MaxWidth == 2

----------------------------------------------------------------------------
(* Values *)

None == "None"
NoStream == 0

\* the registry of the instance's class, in registry order
Order == <<"A", "B", "C">>
Names == {Order[i] : i \in 1..Len(Order)}
\* a name that is in no registry
Ghost == "Z"
\* a keyword argument that names no field
Opt == "opt"

\* what a caller may assign to a field
SetValues == {None, "v1"}
\* what the handler _parse_<name> returns
Ret(name) == CASE name = "A" -> "rA" [] name = "B" -> "rB" [] OTHER -> "rC"

\* the attributes StructureProperty.__init__ assigns to a descriptor
DescriptorAttrs == {"idx", "name", "deps", "read_only"}

SeqToSet(s) == {s[i] : i \in 1..Len(s)}

----------------------------------------------------------------------------
(* The instance as a value threaded through one call.  A call returns      *)
(* [m, err, val]: err is "ok" on a normal return, else the exception.      *)

Machine(sl, st, sts) ==
    [slot |-> sl, stream |-> st, streams |-> sts, trace |-> <<>>, passed |-> <<>>]
Ok(m, v) == [m |-> m, err |-> "ok", val |-> v]
Raise(m, e) == [m |-> m, err |-> e, val |-> None]
Emit(m, kind, name) == [m EXCEPT !.trace = Append(@, <<kind, name>>)]

\* the element of a one-element set: The({e(x) : x \in {v}}) is e of the value v
The(S) == CHOOSE x \in S : TRUE

----------------------------------------------------------------------------
(* Field Descriptor: StructureProperty *)

\* the exceptions that are AttributeError in the code; hasattr swallows these
AttributeErrors == {"AttributeError", "UnmetDependency", "ReadOnlyViolation"}

RECURSIVE get_property(_, _, _)

\* one element of the list built in _check_dependencies:
\* hasattr(obj, dep) and getattr(obj, dep) is not None
DepPresent(sl, dep, depth) ==
    IF dep \notin Names THEN "F"
    ELSE The({ CASE g.err = "ok" -> IF g.val # None THEN "T" ELSE "F"
                 [] g.err \in AttributeErrors -> "F"
                 [] OTHER -> g.err
               : g \in {get_property(sl, dep, depth + 1)} })

\* "T", "F", or the exception that escapes
_check_dependencies(sl, f, depth) ==
    The({ IF rs \subseteq {"T"} THEN "T"
          ELSE IF rs \subseteq {"T", "F"} THEN "F"
          ELSE "RecursionError"
          : rs \in {{DepPresent(sl, d, depth) : d \in SeqToSet(deps[f]) \ {f}}} })

\* the getter installed for a registered field; [err, val]
get_property(sl, f, depth) ==
    IF depth > MaxDepth THEN [err |-> "RecursionError", val |-> None]
    ELSE IF f \notin Names THEN [err |-> "AttributeError", val |-> None]
    ELSE The({ CASE c = "T" -> [err |-> "ok", val |-> sl[f]]
                 [] c = "F" -> [err |-> "UnmetDependency", val |-> None]
                 [] OTHER -> [err |-> c, val |-> None]
               : c \in {_check_dependencies(sl, f, depth)} })

\* a setter that forgets the read-only check
set_property_unchecked(m, f, v) ==
    Ok([m EXCEPT !.slot[f] = v, !.trace = Append(@, <<"set", f>>)], None)

\* the setter installed for a registered field
set_property(m, f, v) ==
    IF f \in readOnly THEN Raise(m, "ReadOnlyViolation")
    ELSE Ok([m EXCEPT !.slot[f] = v, !.trace = Append(@, <<"set", f>>)], None)

\* getattr(self, name): the installed getter, or no such attribute
Getattr(sl, name, depth) ==
    IF name \in Names THEN get_property(sl, name, depth)
    ELSE [err |-> "AttributeError", val |-> None]

\* setattr(self, name, value): the installed setter, or a plain attribute
Setattr(m, name, v) ==
    IF name \in Names THEN set_property(m, name, v) ELSE Ok(m, None)

----------------------------------------------------------------------------
(* Stream Lifecycle: create_stream, __enter__, __exit__ *)

\* a create_stream that publishes the stream before the open has succeeded
create_stream_assigning_first(m, persist, exists) ==
    IF source = "file" /\ ~exists
    THEN Raise([m EXCEPT !.streams = Append(@, "open"),
                         !.stream = IF persist THEN Len(m.streams) + 1 ELSE @],
               "SourceIOFailure")
    ELSE Ok([m EXCEPT !.streams = Append(@, "open"),
                      !.stream = IF persist THEN Len(m.streams) + 1 ELSE @,
                      !.trace = Append(@, <<"create", "">>)], None)

\* ByteParser wraps its bytes and cannot fail; FileParser opens its path
create_stream(m, persist, exists) ==
    IF source = "file" /\ ~exists THEN Raise(m, "SourceIOFailure")
    ELSE Ok([m EXCEPT !.streams = Append(@, "open"),
                      !.stream = IF persist THEN Len(m.streams) + 1 ELSE @,
                      !.trace = Append(@, <<"create", "">>)], None)

\* __enter__
Enter(m, exists) ==
    IF m.stream = NoStream
    THEN create_stream(Emit(m, "enter", ""), TRUE, exists)
    ELSE Ok(Emit(m, "enter", ""), None)

\* an __exit__ that drops the stream without closing it
Exit_without_close(m) ==
    IF m.stream # NoStream
    THEN Ok([m EXCEPT !.stream = NoStream, !.trace = Append(@, <<"exit", "">>)], None)
    ELSE Ok(Emit(m, "exit", ""), None)

\* __exit__
Exit(m) ==
    IF m.stream # NoStream
    THEN Ok([m EXCEPT !.streams[m.stream] = "closed", !.stream = NoStream,
                      !.trace = @ \o <<<<"exit", "">>, <<"close", "">>>>], None)
    ELSE Ok(Emit(m, "exit", ""), None)

----------------------------------------------------------------------------
(* Resolution Engine: parse_structure and _process_task.                   *)
(* kwargs is a sequence of <<key, value>> pairs; F is the set of fields    *)
(* whose handler raises in this call; exists tells whether the path of a   *)
(* file source can be opened.                                              *)

\* prop.dynamic: the descriptor has the attribute (then it is False) or the
\* lookup raises AttributeError
DynamicLookup == IF "dynamic" \in DescriptorAttrs THEN "False" ELSE "AttributeError"

\* _parse_<name>(*args, **kwargs): the external handler
Handler(m, name, kwargs, F) ==
    IF name \in F
    THEN Raise([m EXCEPT !.trace = Append(@, <<"handler", name>>),
                         !.passed = Append(@, <<name, kwargs>>)], "HandlerError")
    ELSE Ok([m EXCEPT !.trace = Append(@, <<"handler", name>>),
                      !.passed = Append(@, <<name, kwargs>>)], Ret(name))

\* a binding loop that passes the caller's keyword arguments on as they are
BindKwargs_passthrough(sl, structure, kwargs, i) == [err |-> "ok", val |-> kwargs]

RECURSIVE BindKwargs(_, _, _, _)
\* for kwarg in kwargs: replace the value of a key that names another field;
\* [err, val] with val the kwargs passed on
BindKwargs(sl, structure, kwargs, i) ==
    IF i > Len(kwargs) THEN [err |-> "ok", val |-> kwargs]
    ELSE IF kwargs[i][1] # structure /\ kwargs[i][1] \in Names
    THEN The({ IF g.err # "ok" THEN [err |-> g.err, val |-> kwargs]
               ELSE The({ BindKwargs(sl, structure, k, i + 1)
                          : k \in {[kwargs EXCEPT ![i] = <<kwargs[i][1], g.val>>]} })
               : g \in {Getattr(sl, kwargs[i][1], 1)} })
    ELSE BindKwargs(sl, structure, kwargs, i + 1)

RECURSIVE parse_structure(_, _, _, _, _, _)
RECURSIVE ResolveDeps(_, _, _, _, _, _, _)

\* resolve one dependency whose value is None: parse it, store it
ResolveDep(m, dep, kwargs, F, exists, depth) ==
    The({ The({ IF w.err # "ok" THEN Raise(w.m, "DependencyFailure") ELSE w
                : w \in {IF r.err = "ok" THEN Setattr(r.m, dep, r.val) ELSE r} })
          : r \in {parse_structure(m, dep, kwargs, F, exists, depth + 1)} })

\* the loop over deps, from the i-th dependency on
ResolveDeps(m, structure, i, kwargs, F, exists, depth) ==
    IF i > Len(deps[structure]) THEN Ok(m, None)
    ELSE IF deps[structure][i] \notin Names THEN Raise(m, "InvalidDependency")
    ELSE IF DynamicLookup # "False" THEN Raise(m, DynamicLookup)
    ELSE The({ IF g.err # "ok" THEN Raise(m, g.err)
               ELSE IF g.val # None
               THEN ResolveDeps(m, structure, i + 1, kwargs, F, exists, depth)
               ELSE The({ IF w.err # "ok" THEN w
                          ELSE ResolveDeps(w.m, structure, i + 1, kwargs, F,
                                           exists, depth)
                          : w \in {ResolveDep(m, deps[structure][i], kwargs, F,
                                              exists, depth)} })
               : g \in {Getattr(m.slot, deps[structure][i], depth + 1)} })

\* a body that looks for the handler only after the dependencies
ParseBody_handler_checked_late(m, structure, kwargs, F, exists, depth) ==
    IF structure \notin Names THEN Raise(m, "UnknownField")
    ELSE The({ IF d.err # "ok" THEN d
               ELSE IF structure \in unbound THEN Raise(d.m, "NoHandler")
               ELSE The({ IF k.err # "ok" THEN Raise(d.m, k.err)
                          ELSE Handler(d.m, structure, k.val, F)
                          : k \in {BindKwargs(d.m.slot, structure, kwargs, 1)} })
               : d \in {ResolveDeps(m, structure, 1, kwargs, F, exists, depth)} })

\* the body of parse_structure
ParseBody(m, structure, kwargs, F, exists, depth) ==
    IF structure \notin Names THEN Raise(m, "UnknownField")
    ELSE IF structure \in unbound THEN Raise(m, "NoHandler")
    ELSE The({ IF d.err # "ok" THEN d
               ELSE The({ IF k.err # "ok" THEN Raise(d.m, k.err)
                          ELSE Handler(d.m, structure, k.val, F)
                          : k \in {BindKwargs(d.m.slot, structure, kwargs, 1)} })
               : d \in {ResolveDeps(m, structure, 1, kwargs, F, exists, depth)} })

\* a parse_structure decorated with @contexted(True): __exit__ after the body
parse_structure_closing(m, structure, kwargs, F, exists, depth) ==
    IF depth > MaxDepth THEN Raise(m, "RecursionError")
    ELSE The({ IF e.err # "ok" THEN e
               ELSE The({ [b EXCEPT !.m = Exit(b.m).m]
                          : b \in {ParseBody(e.m, structure, kwargs, F, exists, depth)} })
               : e \in {Enter(m, exists)} })

\* @contexted parse_structure: __enter__, then the body; never __exit__
parse_structure(m, structure, kwargs, F, exists, depth) ==
    IF depth > MaxDepth THEN Raise(m, "RecursionError")
    ELSE The({ IF e.err # "ok" THEN e
               ELSE ParseBody(e.m, structure, kwargs, F, exists, depth)
               : e \in {Enter(m, exists)} })

\* one field of the loop of _process_task: parse it and store the result, or
\* log the failure; then _parse_continue is called
ProcessField(m, name, F, exists) ==
    The({ The({ IF w.err = "ok" THEN Emit(w.m, "continue", name)
                ELSE [w.m EXCEPT !.trace = @ \o <<<<"log", name>>, <<"continue", name>>>>]
                : w \in {IF r.err = "ok" THEN Setattr(r.m, name, r.val) ELSE r} })
          : r \in {parse_structure(m, name, <<>>, F, exists, 1)} })

RECURSIVE ProcessLoop(_, _, _, _, _)
\* the for loop of _process_task from the i-th field on; cont tells where the
\* subclass's _parse_continue returns False (stops) or raises (raises)
ProcessLoop(m, i, F, exists, cont) ==
    IF i > Len(Order) THEN Ok(m, "self")
    ELSE IF DynamicLookup # "False" THEN Raise(m, DynamicLookup)
    ELSE The({ IF Order[i] \in cont.raises THEN Raise(t, "ContinueError")
               ELSE IF Order[i] \in cont.stops THEN Ok(t, "self")
               ELSE ProcessLoop(t, i + 1, F, exists, cont)
               : t \in {ProcessField(m, Order[i], F, exists)} })

\* a _process_task without the bare except
_process_task_reraising(m, F, exists, cont) == ProcessLoop(m, 1, F, exists, cont)

\* _process_task: a bare except discards whatever escapes the loop
_process_task(m, F, exists, cont) ==
    The({ IF r.err = "ok" THEN r ELSE Ok(r.m, None)
          : r \in {ProcessLoop(m, 1, F, exists, cont)} })

\* _preamble: the task's own preamble, then __enter__
_preamble(m, exists) == Enter(m, exists)

\* a _postamble that forgets __exit__
_postamble_without_exit(m) == Ok(m, None)

\* _postamble: the task's own postamble, then __exit__
_postamble(m) == Exit(m)

\* BaseTask.run as parse uses it: _preamble, _process_task, _postamble on
\* every exit path of _process_task
run(m, F, exists, cont) ==
    The({ IF p.err # "ok" THEN p
          ELSE The({ The({ IF t.err = "ok" \/ q.err # "ok" THEN q ELSE Raise(q.m, t.err)
                           : q \in {_postamble(t.m)} })
                     : t \in {_process_task(p.m, F, exists, cont)} })
          : p \in {_preamble(m, exists)} })

\* parse: run, then return self
parse(m, F, exists, cont) ==
    The({ IF r.err = "ok" THEN Ok(r.m, "self") ELSE r
          : r \in {run(m, F, exists, cont)} })

----------------------------------------------------------------------------
(* The parser classes and the calls the model makes *)

\* the dependencies the fields declare: none; A <- B <- C with C naming both;
\* a chain; a field registered before its dependency; an unregistered name;
\* a field naming itself; two fields naming each other
DepShapes == {
    [A |-> <<>>, B |-> <<>>, C |-> <<>>],
    [A |-> <<>>, B |-> <<"A">>, C |-> <<"A", "B">>],
    [A |-> <<>>, B |-> <<"A">>, C |-> <<"B">>],
    [A |-> <<"B">>, B |-> <<>>, C |-> <<>>],
    [A |-> <<>>, B |-> <<Ghost>>, C |-> <<"A">>],
    [A |-> <<"A">>, B |-> <<"A">>, C |-> <<>>],
    [A |-> <<"B">>, B |-> <<"A">>, C |-> <<>>] }
\* a class whose fields are all writable and all have a handler, and a class
\* with a read-only field and a field without handler
ClassKinds == {[readOnly |-> {}, unbound |-> {}],
               [readOnly |-> {"A"}, unbound |-> {"C"}]}
Sources == {"bytes", "file"}

\* keyword arguments a caller passes to parse_structure
KwargChoices == {<<>>, <<<<"A", "x">>>>, <<<<Opt, "x">>, <<"B", "x">>>>}
\* the handlers that raise during one call
FailChoices == {{}, {"A"}, Names}
\* _parse_continue: the default, and overrides that stop or raise at a field
ContinueDefault == [stops |-> {}, raises |-> {}]
ContinueChoices == {ContinueDefault, [stops |-> {"A"}, raises |-> {}],
                    [stops |-> {}, raises |-> {"B"}]}
\* whether the path of a file source can be opened at a call
Exists == IF source = "file" THEN BOOLEAN ELSE {TRUE}

NoCall == [op |-> "none", name |-> "", kwargs |-> <<>>, F |-> {},
           cont |-> ContinueDefault, err |-> "ok", val |-> None,
           trace |-> <<>>, passed |-> <<>>]

Current == Machine(slot, stream, streams)

\* the instance after a call that returned r, and the record of the call
Observe(op, name, kwargs, F, cont, r) ==
    /\ slot' = r.m.slot
    /\ stream' = r.m.stream
    /\ streams' = r.m.streams
    /\ last' = [op |-> op, name |-> name, kwargs |-> kwargs, F |-> F,
                cont |-> cont, err |-> r.err, val |-> r.val,
                trace |-> r.m.trace, passed |-> r.m.passed]
    /\ UNCHANGED <<deps, readOnly, unbound, source>>
    /\ UNCHANGED registryVars
    /\ UNCHANGED cleanVars

\* a call that may open a stream is made only while the model has room for one
Room == stream # NoStream \/ Len(streams) < MaxStreams

IdleRegistry == heap = <<>> /\ classes = <<>> /\ lastDef = <<>>
IdleClean == impl = "" /\ tree = <<>> /\ serialize = FALSE /\ cleaned = <<>>
Init ==
    /\ deps \in DepShapes
    /\ \E k \in ClassKinds : readOnly = k.readOnly /\ unbound = k.unbound
    /\ source \in Sources
    /\ slot = [f \in Names |-> None]
    /\ stream = NoStream
    /\ streams = <<>>
    /\ last = NoCall
    /\ IdleRegistry
    /\ IdleClean

\* setattr(parser, name, value)
SetField ==
    \E name \in Names, v \in SetValues :
        \E r \in {Setattr(Current, name, v)} :
            Observe("set", name, <<>>, {}, ContinueDefault, r)

\* getattr(parser, name)
GetField ==
    \E name \in Names :
        \E g \in {Getattr(slot, name, 1)} :
            Observe("get", name, <<>>, {}, ContinueDefault,
                    [m |-> Current, err |-> g.err, val |-> g.val])

\* parser.parse_structure(name, **kwargs)
ParseStructure ==
    /\ Room
    /\ \E name \in Names \cup {Ghost}, kwargs \in KwargChoices,
          F \in FailChoices, exists \in Exists :
        \E r \in {parse_structure(Current, name, kwargs, F, exists, 1)} :
            Observe("parse_structure", name, kwargs, F, ContinueDefault, r)

\* parser.parse()
Parse ==
    /\ Room
    /\ \E F \in FailChoices, cont \in ContinueChoices, exists \in Exists :
        \E r \in {parse(Current, F, exists, cont)} :
            Observe("parse", "", <<>>, F, cont, r)

\* parser.__enter__()
EnterCall ==
    /\ Room
    /\ \E exists \in Exists :
        \E r \in {Enter(Current, exists)} :
            Observe("enter", "", <<>>, {}, ContinueDefault, r)

\* parser.__exit__()
ExitCall ==
    \E r \in {Exit(Current)} : Observe("exit", "", <<>>, {}, ContinueDefault, r)

Next == SetField \/ GetField \/ ParseStructure \/ Parse \/ EnterCall \/ ExitCall

Spec == Init /\ [][Next]_vars

----------------------------------------------------------------------------
(* Field Registry Builder: ParserMeta._create_class.                       *)
(* A descriptor is an object on the heap, shared by every registry that    *)
(* lists it; a class is its _PROPERTIES, a sequence of <<name, id>> in     *)
(* insertion order, and its method resolution order.                       *)

\* StructureProperty(idx, name, read_only=...)
Descriptor(idx, name, ro) == [idx |-> idx, name |-> name, read_only |-> ro]

KeysOf(props) == {props[i][1] : i \in 1..Len(props)}
IdOf(props, name) == props[CHOOSE i \in 1..Len(props) : props[i][1] = name][2]

\* properties[key] = d on an OrderedDict: a known key keeps its position
Put(props, key, d) ==
    IF key \in KeysOf(props)
    THEN [i \in 1..Len(props) |->
            IF props[i][1] = key THEN <<key, d>> ELSE props[i]]
    ELSE Append(props, <<key, d>>)

RECURSIVE Flatten(_, _)
\* the entries of the bases' registries, base after base
Flatten(cls, bases) ==
    IF bases = <<>> THEN <<>>
    ELSE cls[Head(bases)].props \o Flatten(cls, Tail(bases))

RECURSIVE SortedByIdx(_, _)
\* sorted(..., key=idx): stable, the entries with the least index first
SortedByIdx(hp, entries) ==
    IF entries = <<>> THEN <<>>
    ELSE The({ SelectSeq(entries, LAMBDA e : hp[e[2]].idx = least)
                  \o SortedByIdx(hp, SelectSeq(entries, LAMBDA e : hp[e[2]].idx # least))
               : least \in {CHOOSE k \in {hp[entries[i][2]].idx : i \in 1..Len(entries)} :
                              \A i \in 1..Len(entries) : k <= hp[entries[i][2]].idx} })

RECURSIVE Register(_, _, _, _)
\* properties[key] = d; d.idx = current_idx; current_idx += 1, entry by entry
Register(st, entries, i, from) ==
    IF i > Len(entries) THEN st
    ELSE The({ Register(n, entries, i + 1, from)
               : n \in {[heap |-> [st.heap EXCEPT ![entries[i][2]].idx = from + i - 1],
                         props |-> Put(st.props, entries[i][1], entries[i][2])]} })

\* _create_class for a class body that declared `declared` (<<name, id>> in
\* declaration order, the descriptors already on the heap hp): the inherited
\* entries first, which also replace a declared attribute of the same name by
\* the accessor pair, then the declared StructureProperty attributes by index
_create_class(hp, cls, bases, declared) ==
    The({ The({ The({ Register(st, SortedByIdx(st.heap, fresh), 1, Len(inherited))
                      : fresh \in {SelectSeq(declared,
                                      LAMBDA e : e[1] \notin KeysOf(inherited))} })
                : st \in {Register([heap |-> hp, props |-> <<>>], inherited, 1, 0)} })
          : inherited \in {Flatten(cls, bases)} })

RECURSIVE Merge(_)
\* the C3 merge of Python's method resolution order; <<0>> when there is none
Merge(seqs) ==
    The({ IF live = <<>> THEN <<>>
          ELSE The({ IF heads = {} THEN <<0>>
                     ELSE The({ The({ IF 0 \in SeqToSet(rest) THEN <<0>>
                                      ELSE <<live[h][1]>> \o rest
                                      : rest \in {Merge([j \in 1..Len(live) |->
                                            SelectSeq(live[j],
                                                LAMBDA c : c # live[h][1])])} })
                                : h \in {CHOOSE h \in heads :
                                            \A g \in heads : h <= g} })
                     : heads \in {{h \in 1..Len(live) :
                            \A j \in 1..Len(live) :
                                live[h][1] \notin SeqToSet(Tail(live[j]))}} })
          : live \in {SelectSeq(seqs, LAMBDA q : q # <<>>)} })

\* the method resolution order of a new class id with the given bases
Linearize(cls, id, bases) ==
    The({ IF 0 \in SeqToSet(rest) THEN <<0>> ELSE <<id>> \o rest
          : rest \in {Merge([j \in 1..Len(bases) |-> cls[bases[j]].mro]
                            \o <<bases>>)} })

\* the class bodies the model defines, each the StructureProperty attributes
\* in declaration order: none; one field; a read-only field; two fields
\* declared against their indices; two fields with the same index
Bodies ==
    { <<>>,
      <<Descriptor(1, "a", FALSE)>>,
      <<Descriptor(1, "b", FALSE)>>,
      <<Descriptor(1, "a", TRUE)>>,
      <<Descriptor(2, "a", FALSE), Descriptor(1, "b", FALSE)>>,
      <<Descriptor(1, "b", FALSE), Descriptor(1, "a", FALSE)>> }

\* the base lists of a class definition: distinct existing parser classes
BaseLists(cls) ==
    UNION {{b \in [1..n -> 1..Len(cls)] : \A i, j \in 1..n : i < j => b[i] # b[j]}
           : n \in 1..MaxBases}

NoDef == [cls |-> 0, bases |-> <<>>, body |-> <<>>, declared |-> <<>>]

InitRegistry ==
    /\ heap = <<>>
    \* BaseParser: no field, its own method resolution order
    /\ classes = <<[props |-> <<>>, mro |-> <<1>>]>>
    /\ lastDef = NoDef
    /\ deps = <<>> /\ readOnly = {} /\ unbound = {} /\ source = ""
    /\ slot = <<>> /\ stream = NoStream /\ streams = <<>> /\ last = <<>>
    /\ IdleClean

\* class <new>(bases...): the body creates its descriptors, the metaclass
\* builds _PROPERTIES; a definition without consistent method resolution
\* order is rejected by the interpreter
DefineClass ==
    /\ Len(classes) <= MaxClasses
    /\ \E bases \in BaseLists(classes), body \in Bodies :
        \E mro \in {Linearize(classes, Len(classes) + 1, bases)} :
          /\ 0 \notin SeqToSet(mro)
          /\ \E declared \in {[i \in 1..Len(body) |-> <<body[i].name, Len(heap) + i>>]} :
              \E new \in {_create_class(heap \o body, classes, bases, declared)} :
                /\ heap' = new.heap
                /\ classes' = Append(classes, [props |-> new.props, mro |-> mro])
                /\ lastDef' = [cls |-> Len(classes) + 1, bases |-> bases,
                               body |-> body, declared |-> declared]
    /\ UNCHANGED parserVars
    /\ UNCHANGED cleanVars

NextRegistry == DefineClass

SpecRegistry == InitRegistry /\ [][NextRegistry]_vars

----------------------------------------------------------------------------
(* Value Sanitizer: BaseParser._clean_value.                                *)
(* A node is <<kind, payload>>: a scalar, a datetime ("time"), a string     *)
(* ("text"), a Container ("map": a sequence of <<key, node>> in key order)  *)
(* or a list.  A key is the sequence of its characters.                     *)

\* str.startswith
StartsWith(key, prefix) ==
    Len(key) >= Len(prefix) /\ SubSeq(key, 1, Len(prefix)) = prefix

\* key.startswith('Raw') or key.startswith('_')
Marked(key) == StartsWith(key, <<"R", "a", "w">>) \/ StartsWith(key, <<"_">>)

\* value.strftime('%Y-%m-%d %H:%M:%S.%f%z'): an aware and a naive datetime
Strftime(t) ==
    CASE t = "2018-03-04T05:06:07.000008Z" -> "2018-03-04 05:06:07.000008+0000"
      [] OTHER -> "2018-03-04 05:06:07.000008"

Without(entries, i) == SubSeq(entries, 1, i - 1) \o SubSeq(entries, i + 1, Len(entries))

\* the builds differ in construct.Container: a dict that keeps its keys in a
\* list of its own ("keylist"), a collections.OrderedDict ("odict"), a plain
\* dict ("dict")
Impls == {"keylist", "odict", "dict"}

RECURSIVE _clean_value(_, _)
RECURSIVE CleanKeys(_, _, _)
RECURSIVE CleanList(_, _, _)

\* `for key in cleaned_value` from the i-th position of the iterator on, with
\* `del cleaned_value[key]` inside the loop: the key list shifts under the
\* iterator, which then skips the key that follows; an OrderedDict raises at
\* the next step unless the deleted key was the last; a dict raises at the
\* next step
CleanKeys(entries, i, ser) ==
    IF i > Len(entries) THEN [err |-> "ok", val |-> entries]
    ELSE IF Marked(entries[i][1])
    THEN CASE impl = "keylist" -> CleanKeys(Without(entries, i), i + 1, ser)
           [] impl = "odict" /\ i = Len(entries) ->
                [err |-> "ok", val |-> Without(entries, i)]
           [] OTHER -> [err |-> "RuntimeError", val |-> <<>>]
    ELSE The({ IF c.err # "ok" THEN [err |-> c.err, val |-> <<>>]
               ELSE The({ CleanKeys(e, i + 1, ser)
                          : e \in {[entries EXCEPT ![i] = <<entries[i][1], c.val>>]} })
               : c \in {_clean_value(entries[i][2], ser)} })

\* list(map(lambda entry: self._clean_value(entry, serialize), value))
CleanList(elems, i, ser) ==
    IF i > Len(elems) THEN [err |-> "ok", val |-> elems]
    ELSE The({ IF c.err # "ok" THEN [err |-> c.err, val |-> <<>>]
               ELSE The({ CleanList(e, i + 1, ser)
                          : e \in {[elems EXCEPT ![i] = c.val]} })
               : c \in {_clean_value(elems[i], ser)} })

\* _clean_value(value, serialize); [err, val]
_clean_value(value, ser) ==
    CASE value[1] = "map" ->
            The({ [err |-> r.err,
                   val |-> IF r.err = "ok" THEN <<"map", r.val>> ELSE <<"scalar", None>>]
                  : r \in {CleanKeys(value[2], 1, ser)} })
      [] value[1] = "list" ->
            The({ [err |-> r.err,
                   val |-> IF r.err = "ok" THEN <<"list", r.val>> ELSE <<"scalar", None>>]
                  : r \in {CleanList(value[2], 1, ser)} })
      [] value[1] = "time" /\ ser ->
            [err |-> "ok", val |-> <<"text", Strftime(value[2])>>]
      [] OTHER -> [err |-> "ok", val |-> value]

\* the keys and leaves of the trees the model cleans
Keys == {<<"R", "a", "w", "M">>, <<"_", "i">>, <<"V">>}
Leaves == {<<"scalar", "s">>, <<"time", "2018-03-04T05:06:07.000008Z">>}

\* sequences of up to MaxWidth elements of S
UpTo(S) == UNION {[1..n -> S] : n \in 0..MaxWidth}
\* the maps with up to MaxWidth entries, distinct keys, values in S
MapsOver(S) ==
    {<<"map", e>> : e \in {e \in UpTo(Keys \X S) :
                             \A i, j \in 1..Len(e) : i < j => e[i][1] # e[j][1]}}
ListsOver(S) == {<<"list", e>> : e \in UpTo(S)}

RECURSIVE Trees(_)
\* the resolved trees nested at most n deep
Trees(n) ==
    IF n = 0 THEN Leaves
    ELSE The({ Leaves \cup MapsOver(inner) \cup ListsOver(inner)
               : inner \in {Trees(n - 1)} })

NoResult == [calls |-> 0, err |-> "ok", val |-> <<"scalar", None>>]

InitClean ==
    /\ impl \in Impls
    /\ tree \in Trees(MaxNesting)
    /\ serialize \in BOOLEAN
    /\ cleaned = NoResult
    /\ deps = <<>> /\ readOnly = {} /\ unbound = {} /\ source = ""
    /\ slot = <<>> /\ stream = NoStream /\ streams = <<>> /\ last = <<>>
    /\ IdleRegistry

\* parser._clean_value(tree, serialize)
CleanOnce ==
    /\ \E r \in {_clean_value(tree, serialize)} :
          cleaned' = [calls |-> 1, err |-> r.err, val |-> r.val]
    /\ UNCHANGED <<impl, tree, serialize>>
    /\ UNCHANGED parserVars
    /\ UNCHANGED registryVars

\* parser._clean_value(parser._clean_value(tree), serialize)
CleanTwice ==
    /\ \E r \in {_clean_value(tree, FALSE)} :
          \E q \in {IF r.err = "ok" THEN _clean_value(r.val, serialize) ELSE r} :
              cleaned' = [calls |-> 2, err |-> q.err, val |-> q.val]
    /\ UNCHANGED <<impl, tree, serialize>>
    /\ UNCHANGED parserVars
    /\ UNCHANGED registryVars

NextClean == CleanOnce \/ CleanTwice

SpecClean == InitClean /\ [][NextClean]_vars

----------------------------------------------------------------------------
(* Reading the record of a call *)

\* how often the event <<kind, name>> occurs in a trace
Count(tr, kind, name) == Cardinality({i \in 1..Len(tr) : tr[i] = <<kind, name>>})
\* the positions of the events of a kind
Positions(tr, kind) == {i \in 1..Len(tr) : tr[i][1] = kind}
Unset == [f \in Names |-> None]

\* f declares g, directly or through at most n further fields
RECURSIVE Needs(_, _, _)
Needs(f, g, n) ==
    \/ g \in SeqToSet(deps[f])
    \/ n > 0 /\ \E h \in SeqToSet(deps[f]) \cap Names : Needs(h, g, n - 1)
Acyclic == \A f \in Names : ~Needs(f, f, Cardinality(Names))
\* every field is writable, has a handler and declares registered fields only
WellFormed ==
    /\ readOnly = {} /\ unbound = {}
    /\ \A f \in Names : SeqToSet(deps[f]) \subseteq Names
    /\ Acyclic

----------------------------------------------------------------------------
(* Claims about the resolution engine and the stream lifecycle (Spec) *)

\* C1: after a full run (parse, hence _process_task) with the default
\* continuation predicate over a registry whose fields are all writable, have
\* handlers that succeed and declare registered dependencies only, every
\* field's backing slot holds the value its handler returned.
C1_ResolveAllStoresEveryField ==
    (/\ last.op = "parse" /\ last.err = "ok"
     /\ last.F = {} /\ last.cont = ContinueDefault
     /\ WellFormed)
    => \A f \in Names : slot[f] = Ret(f)

\* C2: with A (no dependencies), B (deps=[A]) and C (deps=[A,B]) and all slots
\* unset, one parse_structure("C") whose handlers succeed invokes the handler
\* of A exactly once, the handler of B exactly once, and then the handler of C.
C2_DiamondResolvedOnce ==
    [][(/\ deps = [A |-> <<>>, B |-> <<"A">>, C |-> <<"A", "B">>]
        /\ readOnly = {} /\ unbound = {}
        /\ slot = Unset
        /\ last'.op = "parse_structure" /\ last'.name = "C" /\ last'.F = {}
        /\ last'.err # "SourceIOFailure")
       => /\ Count(last'.trace, "handler", "A") = 1
          /\ Count(last'.trace, "handler", "B") = 1
          /\ Count(last'.trace, "handler", "C") = 1
          /\ last'.trace[Len(last'.trace)] = <<"handler", "C">>]_vars

\* C4: a full run in which the handler of every field fails returns normally,
\* leaves every backing slot unset and logs exactly one failure per field.
C4_AllFailuresLogged ==
    [][(/\ slot = Unset
        /\ source = "bytes"
        /\ last'.op = "parse" /\ last'.F = Names /\ last'.cont = ContinueDefault)
       => /\ last'.err = "ok"
          /\ slot' = Unset
          /\ \A f \in Names : Count(last'.trace, "log", f) = 1]_vars

\* C5: a full run (parse) calls __enter__ before anything else and __exit__
\* after everything else; when parse returns, on every path, no stream is held
\* and every stream the instance created is closed.
C5_ParseReleasesStream ==
    last.op = "parse" =>
        /\ stream = NoStream
        /\ \A i \in 1..Len(streams) : streams[i] = "closed"
        /\ last.trace[1] = <<"enter", "">>
        /\ last.err = "ok" =>
              /\ Positions(last.trace, "exit") # {}
              /\ \A i \in Positions(last.trace, "exit") :
                    \A j \in 1..Len(last.trace) :
                        last.trace[j][1] \in {"handler", "set", "log", "continue", "create"}
                            => j < i

\* a full run that opened a stream, released it and returned normally
C5_Witness ==
    /\ last.op = "parse" /\ last.err = "ok"
    /\ Count(last.trace, "create", "") = 1
    /\ Count(last.trace, "close", "") = 1

\* C6: a write to a read-only field fails with ReadOnlyViolation, and no call
\* (set, parse_structure, parse, ...) ever changes the backing slot of a
\* read-only field.
C6_ReadOnlyNeverWritten ==
    [][/\ \A f \in readOnly : slot'[f] = slot[f]
       /\ (last'.op = "set" /\ last'.name \in readOnly)
            => (last'.err = "ReadOnlyViolation" /\ slot' = slot)]_vars

\* an attempted write of a value to a read-only field that was refused
C6_Witness ==
    /\ last.op = "set" /\ last.name \in readOnly
    /\ last.err = "ReadOnlyViolation"
    /\ \E f \in Names \ readOnly : slot[f] # None

C10_StreamLifecycle ==
    /\ [](\A i \in 1..Len(streams) :
            streams[i] = (IF i = stream THEN "open" ELSE "closed"))
    /\ [](stream \in {NoStream} \cup (1..Len(streams)))
    /\ [][/\ (last'.op = "enter" /\ stream = NoStream /\ last'.err = "ok")
                => (streams' = Append(streams, "open") /\ stream' = Len(streams'))
          /\ (last'.op = "enter" /\ (stream # NoStream \/ last'.err # "ok"))
                => (streams' = streams /\ stream' = stream)
          /\ (last'.op = "exit" /\ stream # NoStream)
                => (streams' = [streams EXCEPT ![stream] = "closed"]
                    /\ stream' = NoStream)
          /\ (last'.op = "exit" /\ stream = NoStream)
                => (streams' = streams /\ stream' = stream)]_vars

\* a second stream was acquired after the first was released, then released
C10_Witness ==
    /\ last.op = "exit"
    /\ stream = NoStream
    /\ Len(streams) = 2
    /\ last.trace = <<<<"exit", "">>, <<"close", "">>>>

----------------------------------------------------------------------------
(* Claims about the field registry (SpecRegistry) *)

\* the position of a name in a registry
Pos(props, name) == CHOOSE i \in 1..Len(props) : props[i][1] = name
\* the names the class defined last inherits, and those its body declares
InheritedNames == UNION {KeysOf(classes[lastDef.bases[b]].props) :
                            b \in 1..Len(lastDef.bases)}
DeclaredNames == {lastDef.body[i].name : i \in 1..Len(lastDef.body)}

\* C3: the registry built for a class lists the inherited fields in the
\* relative order they have in each base, then the newly declared fields
\* sorted by author-assigned index, and the descriptors' indices read in
\* registry order are 0, 1, ..., N-1.
C3_RegistryOrderAndIndices ==
    lastDef.cls # 0 =>
        LET reg == classes[lastDef.cls].props
            new == DeclaredNames \ InheritedNames
        IN  /\ KeysOf(reg) = InheritedNames \cup DeclaredNames
            /\ Len(reg) = Cardinality(KeysOf(reg))
            /\ \A b \in 1..Len(lastDef.bases) :
                  LET base == classes[lastDef.bases[b]].props
                  IN  \A i, j \in 1..Len(base) :
                        i < j => Pos(reg, base[i][1]) < Pos(reg, base[j][1])
            /\ \A p \in InheritedNames, q \in new : Pos(reg, p) < Pos(reg, q)
            /\ \A i, j \in 1..Len(lastDef.body) :
                  (/\ lastDef.body[i].name \in new /\ lastDef.body[j].name \in new
                   /\ \/ lastDef.body[i].idx < lastDef.body[j].idx
                      \/ lastDef.body[i].idx = lastDef.body[j].idx /\ i < j)
                  => Pos(reg, lastDef.body[i].name) < Pos(reg, lastDef.body[j].name)
            /\ \A i \in 1..Len(reg) : heap[reg[i][2]].idx = i - 1

----------------------------------------------------------------------------
(* Claims about the sanitizer (SpecClean) *)

RECURSIVE NoMarkedKey(_)
\* no map of the tree, at any depth, has a marked key
NoMarkedKey(v) ==
    CASE v[1] = "map" ->
            \A i \in 1..Len(v[2]) : ~Marked(v[2][i][1]) /\ NoMarkedKey(v[2][i][2])
      [] v[1] = "list" -> \A i \in 1..Len(v[2]) : NoMarkedKey(v[2][i])
      [] OTHER -> TRUE

RECURSIVE Sanitized(_, _)
\* sanitize as section 4.5 of the specification defines it
Sanitized(v, ser) ==
    CASE v[1] = "map" ->
            The({ <<"map", [i \in 1..Len(kept) |->
                              <<kept[i][1], Sanitized(kept[i][2], ser)>>]>>
                  : kept \in {SelectSeq(v[2], LAMBDA e : ~Marked(e[1]))} })
      [] v[1] = "list" -> <<"list", [i \in 1..Len(v[2]) |-> Sanitized(v[2][i], ser)]>>
      [] v[1] = "time" /\ ser -> <<"text", Strftime(v[2])>>
      [] OTHER -> v

\* C8: _clean_value returns a tree in which no map at any depth (maps inside
\* lists included) has a key starting with 'Raw' or '_', and in which every
\* other key is kept, paired with the sanitized form of its value.
C8_MarkedKeysRemoved ==
    cleaned.calls = 1 =>
        /\ cleaned.err = "ok"
        /\ NoMarkedKey(cleaned.val)
        /\ cleaned.val = Sanitized(tree, serialize)

\* C9: _clean_value is idempotent: cleaning a cleaned tree with flag s gives
\* what cleaning the tree with flag s gives.
C9_Idempotent ==
    cleaned.calls = 2 =>
        The({ cleaned.err = once.err /\ cleaned.val = once.val
              : once \in {_clean_value(tree, serialize)} })

----------------------------------------------------------------------------
(* Claims about opening the source *)

\* C11: __enter__ on an instance with no stream and a file source whose path
\* cannot be opened fails with SourceIOFailure and leaves the stream unset
\* and no stream created; the next __enter__ calls create_stream again: it
\* fails the same way or creates the one stream it then holds.
C11_FailedOpenLeavesUnset ==
    /\ [](source = "file" /\ stream = NoStream =>
            /\ Enter(Current, FALSE).err = "SourceIOFailure"
            /\ Enter(Current, FALSE).m.stream = NoStream
            /\ Enter(Current, FALSE).m.streams = streams)
    /\ [][last'.op = "enter" /\ last'.err = "SourceIOFailure" =>
            /\ source = "file" /\ stream = NoStream
            /\ stream' = NoStream /\ streams' = streams]_vars
    /\ [][last.op = "enter" /\ last.err = "SourceIOFailure" /\ last'.op = "enter" =>
            \/ last'.err = "SourceIOFailure"
            \/ /\ last'.err = "ok" /\ <<"create", "">> \in SeqToSet(last'.trace)
               /\ stream' = Len(streams) + 1 /\ streams' = Append(streams, "open")]_vars

\* an __enter__ has just failed on a file source and the stream is unset
C11_Witness ==
    /\ last.op = "enter" /\ last.err = "SourceIOFailure"
    /\ source = "file" /\ stream = NoStream

----------------------------------------------------------------------------
(* Claims about the registries of classes already defined *)

\* the registry of class c as an instance reads it: the field names in order,
\* each with the attributes of its descriptor
RegistryOf(cls, hp, c) ==
    [i \in 1..Len(cls[c].props) |-> <<cls[c].props[i][1], hp[cls[c].props[i][2]]>>]

\* C12: defining a further class leaves the registry of every class defined
\* before unchanged: the same names in the same order, each descriptor with
\* the same index and flags.
C12_RegistriesImmutable ==
    [][\A c \in 1..Len(classes) :
          RegistryOf(classes', heap', c) = RegistryOf(classes, heap, c)]_vars

\* C13: when the body of the class defined last declares a name that a base
\* already registers, the registry holds the declared descriptor under that
\* name (its read-only flag is the declared one), at a position before every
\* newly declared name.
C13_OverrideReplacesDescriptor ==
    lastDef.cls # 0 =>
        LET reg == classes[lastDef.cls].props
        IN  \A i \in 1..Len(lastDef.body) :
              lastDef.body[i].name \in InheritedNames =>
                /\ lastDef.body[i].name \in KeysOf(reg)
                /\ heap[IdOf(reg, lastDef.body[i].name)].read_only
                      = lastDef.body[i].read_only
                /\ \A q \in DeclaredNames \ InheritedNames :
                      Pos(reg, lastDef.body[i].name) < Pos(reg, q)

----------------------------------------------------------------------------
(* Claims about the descriptor's dependency check *)

\* every dependency of f other than f itself has a backing value
BackingValuesPresent(f) ==
    \A d \in SeqToSet(deps[f]) \ {f} : d \in Names /\ slot[d] # None

\* C14: in every state set calls can reach, for every field of a registry
\* without dependency cycle, _check_dependencies is true iff every declared
\* dependency other than the field itself has a backing value that is not
\* None, whatever the state of that dependency's own dependencies; the getter
\* fails with UnmetDependency exactly when the check is false and otherwise
\* returns the backing value, None for a field never computed.
C14_DependenciesSatisfied ==
    Acyclic =>
        \A f \in Names :
            /\ (_check_dependencies(slot, f, 1) = "T") <=> BackingValuesPresent(f)
            /\ IF BackingValuesPresent(f)
               THEN get_property(slot, f, 1) = [err |-> "ok", val |-> slot[f]]
               ELSE get_property(slot, f, 1).err = "UnmetDependency"

----------------------------------------------------------------------------
(* Claims about the resolution of dependencies *)

\* the fields name needs, directly or along a chain
Prerequisites(name) == {g \in Names : Needs(name, g, Cardinality(Names))}

\* C15: on a registry without cycle whose fields are writable and have
\* handlers, with every slot unset and every handler succeeding,
\* parse_structure(name) returns the result of name's handler, having stored
\* the handler result of every field name needs along the whole dependency
\* chain (and of no other field), each prerequisite's handler invoked before
\* the handler of the field that needs it.
C15_ResolvesWholeChain ==
    [][(/\ WellFormed
        /\ slot = Unset
        /\ last'.op = "parse_structure" /\ last'.name \in Names /\ last'.F = {}
        /\ last'.err # "SourceIOFailure")
       => /\ last'.err = "ok" /\ last'.val = Ret(last'.name)
          /\ \A g \in Names :
                slot'[g] = IF g \in Prerequisites(last'.name) THEN Ret(g) ELSE None
          /\ \A h \in Prerequisites(last'.name) \cup {last'.name} :
                /\ Count(last'.trace, "handler", h) >= 1
                /\ \A g \in Prerequisites(h) :
                      \E i, j \in 1..Len(last'.trace) :
                          /\ i < j
                          /\ last'.trace[i] = <<"handler", g>>
                          /\ last'.trace[j] = <<"handler", h>>]_vars

\* C16: when parse_structure(name) reaches a registered dependency d whose
\* slot is unset and whose resolution fails (its handler raises, or d is
\* read-only so that storing fails), the call fails with DependencyFailure,
\* the handler of name is not invoked and the slot of d stays unset; when the
\* first declared dependency is not a registered field the call fails with
\* InvalidDependency and the handler of name is not invoked.
C16_DependencyFailureWrapped ==
    [][(/\ last'.op = "parse_structure" /\ last'.name \in Names \ unbound
        /\ last'.err # "SourceIOFailure"
        /\ deps[last'.name] # <<>>)
       => LET name == last'.name
              d == deps[name][1]
          IN  /\ d \notin Names =>
                    /\ last'.err = "InvalidDependency"
                    /\ Count(last'.trace, "handler", name) = 0
              /\ (/\ d \in Names \ {name} /\ deps[d] = <<>>
                  /\ d \notin unbound
                  /\ slot[d] = None
                  /\ d \in last'.F \/ d \in readOnly) =>
                    /\ last'.err = "DependencyFailure"
                    /\ Count(last'.trace, "handler", name) = 0
                    /\ slot'[d] = None]_vars

----------------------------------------------------------------------------
(* Claims about the arguments of the handler *)

\* the keyword arguments the handler of the field a call names received
PassedToNamed(l) == l.passed[Len(l.passed)][2]
\* the call reached the handler of the field it names
ReachedHandler(l) ==
    /\ l.op = "parse_structure" /\ l.passed # <<>>
    /\ l.passed[Len(l.passed)][1] = l.name

\* C17 as claimed: the handler of the field a parse_structure call names
\* receives the caller's keyword arguments with the value of every key that
\* names a registered field replaced by that field's current value, and the
\* other keys unchanged.
C17_EveryFieldKeyReplaced ==
    [][ReachedHandler(last') =>
          /\ Len(PassedToNamed(last')) = Len(last'.kwargs)
          /\ \A i \in 1..Len(last'.kwargs) :
                PassedToNamed(last')[i] =
                    IF last'.kwargs[i][1] \in Names
                    THEN <<last'.kwargs[i][1], slot'[last'.kwargs[i][1]]>>
                    ELSE last'.kwargs[i]]_vars

\* C17 amended: the handler receives the caller's keyword arguments with the
\* value of every key that names a registered field other than the field
\* being parsed replaced by that field's current value; the key that names
\* the field being parsed and the keys that name no field are unchanged.
C17_OtherFieldKeysReplaced ==
    [][ReachedHandler(last') =>
          /\ Len(PassedToNamed(last')) = Len(last'.kwargs)
          /\ \A i \in 1..Len(last'.kwargs) :
                PassedToNamed(last')[i] =
                    IF last'.kwargs[i][1] \in Names \ {last'.name}
                    THEN <<last'.kwargs[i][1], slot'[last'.kwargs[i][1]]>>
                    ELSE last'.kwargs[i]]_vars

\* a handler received, under a key naming another field, that field's value
\* in place of the value the caller passed
C17_Witness ==
    /\ ReachedHandler(last)
    /\ \E i \in 1..Len(last.kwargs) :
          /\ last.kwargs[i][1] \in Names \ {last.name}
          /\ PassedToNamed(last)[i] = <<last.kwargs[i][1], slot[last.kwargs[i][1]]>>
          /\ PassedToNamed(last)[i] # last.kwargs[i]

----------------------------------------------------------------------------
(* Claims about the loop of a full run *)

\* the field at which the continuation predicate cont stops the loop; the
\* last field when it stops nowhere
StopIndex(cont) ==
    IF \E i \in 1..Len(Order) : Order[i] \in cont.stops
    THEN CHOOSE i \in 1..Len(Order) :
            /\ Order[i] \in cont.stops
            /\ \A j \in 1..(i - 1) : Order[j] \notin cont.stops
    ELSE Len(Order)

\* C18: in a full run whose continuation predicate does not raise,
\* _parse_continue is called exactly once for every field up to and including
\* the first field at which it returns False and for no field after it, and
\* after the call that returned False no handler is invoked and no slot is
\* written.
C18_ContinuationAfterEachField ==
    [][(/\ last'.op = "parse" /\ last'.err # "SourceIOFailure"
        /\ last'.cont.raises = {})
       => /\ \A i \in 1..Len(Order) :
                Count(last'.trace, "continue", Order[i])
                    = IF i <= StopIndex(last'.cont) THEN 1 ELSE 0
          /\ \A j, k \in 1..Len(last'.trace) :
                (last'.trace[j] = <<"continue", Order[StopIndex(last'.cont)]>> /\ j < k)
                    => last'.trace[k][1] \in {"exit", "close"}]_vars

\* the loop of _process_task as the parse call made on the current instance
\* runs it, after _preamble has acquired the stream
LoopOf(l) == ProcessLoop(Enter(Current, TRUE).m, 1, l.F, TRUE, l.cont)

\* C19: when an exception escapes the loop of _process_task in a full run,
\* parse returns normally, the slots hold what the loop had written up to
\* the failure, and nothing is done after the failure but to release the
\* stream.
C19_LoopFailureDiscarded ==
    [][(/\ last'.op = "parse" /\ last'.err # "SourceIOFailure"
        /\ LoopOf(last').err # "ok")
       => /\ last'.err = "ok" /\ last'.val = "self"
          /\ slot' = LoopOf(last').m.slot
          /\ \E n \in 0..2 :
                /\ Len(last'.trace) = Len(LoopOf(last').m.trace) + n
                /\ \A i \in 1..Len(last'.trace) :
                      IF i <= Len(LoopOf(last').m.trace)
                      THEN last'.trace[i] = LoopOf(last').m.trace[i]
                      ELSE last'.trace[i][1] \in {"exit", "close"}]_vars

\* a full run over a registry with fields returned normally although its
\* loop, which no continuation predicate stopped, did not reach every field
C19_Witness ==
    /\ last.op = "parse" /\ last.err = "ok" /\ last.val = "self"
    /\ last.cont.stops = {}
    /\ \E f \in Names : Count(last.trace, "continue", f) = 0

----------------------------------------------------------------------------
(* Claims about the stream of a single-field resolution *)

\* C20: a parse_structure call on an instance without stream whose source can
\* be opened creates exactly one stream and returns, normally or with any
\* failure, holding it open; a call on an instance that holds a stream keeps
\* that stream and creates none; no call closes a stream.
C20_ParseStructureKeepsStreamOpen ==
    [][(last'.op = "parse_structure" /\ last'.err # "SourceIOFailure")
       => /\ stream = NoStream =>
                /\ stream' = Len(streams) + 1
                /\ streams' = Append(streams, "open")
                /\ Count(last'.trace, "create", "") = 1
          /\ stream # NoStream =>
                /\ stream' = stream /\ streams' = streams
                /\ Count(last'.trace, "create", "") = 0
          /\ Positions(last'.trace, "exit") = {}
          /\ Positions(last'.trace, "close") = {}]_vars

\* a parse_structure call that failed after it had created the stream the
\* instance now holds open
C20_Witness ==
    /\ last.op = "parse_structure"
    /\ last.err \in {"UnknownField", "NoHandler", "InvalidDependency",
                     "AttributeError", "HandlerError"}
    /\ Count(last.trace, "create", "") = 1
    /\ stream # NoStream /\ streams[stream] = "open"

----------------------------------------------------------------------------
(* Claims about memoized resolution in a full run *)

====
